---- MODULE Spec2Model ----
(***************************************************************************)
(* Model of IpInfo::lookup (src/src/ipinfo.rs): the batch lookup of IP     *)
(* addresses through an LRU cache, one POST to {url}/batch for the cache   *)
(* misses, enrichment of the returned records from the reference tables,   *)
(* the cache update and the merge of the cache hits into the result.       *)
(*                                                                         *)
(* An Option<T> is a sequence of length at most one: <<>> is None and      *)
(* <<v>> is Some(v).  A HashMap is a function from its keys.  The LruCache *)
(* is the sequence of its (key, value) entries, most recently used first.  *)
(*                                                                         *)
(* lookup is one action, enabled when no call is running (pc = "idle"); it *)
(* leaves the engine in pc = "returned" with the arguments, the request,   *)
(* the behaviour of the network and the value returned, which Return (the  *)
(* caller taking that value) forgets.  The remote service is not trusted:  *)
(* it may fail, answer any status, and answer records under any keys.  A   *)
(* panic of lookup is an outcome; the engine may be used again after it    *)
(* (the caller may catch the unwind).  before, useOrder, streak and        *)
(* streak0 are history variables: lookup never reads them.                 *)
(***************************************************************************)
EXTENDS Integers, Sequences, FiniteSets, TLC

\* ------------------------------------------------------------------ bounds

\* Largest config.cache_size an engine is constructed with.
MaxCap == 2

\* Longest slice of addresses passed to one lookup call.
MaxIps == 2

\* Most records in one response body of the remote service.
MaxRecs == 2

\* The addresses callers ask for and the service may name.
Addr == {"1.1.1.1", "8.8.8.8", "9.9.9.9"}

\* The values the service may serve under each key of a response object
\* (ip and country; the other wire fields are copied through unread): two
\* versions of one address, a record whose ip is not its key, and a country
\* code that the flag, currency and continent tables lack.
Answers == [k \in Addr |->
               CASE k = "1.1.1.1" -> {[ip |-> "1.1.1.1", country |-> "US"],
                                      [ip |-> "1.1.1.1", country |-> "DE"]}
                 [] k = "8.8.8.8" -> {[ip |-> "8.8.8.8", country |-> ""],
                                      [ip |-> "9.9.9.9", country |-> "US"]}
                 [] k = "9.9.9.9" -> {[ip |-> "9.9.9.9", country |-> "DE"],
                                      [ip |-> "9.9.9.9", country |-> "XK"]}]

\* The messages the service may put in the error field of a body.
ErrMsg == {"Unknown token", "Wrong ip"}

\* ------------------------------------------------- reference data store

\* IpInfo.countries: country code -> country name.
countries == [c \in {"US", "DE", "XK"} |->
                 CASE c = "US" -> "United States"
                   [] c = "DE" -> "Germany"
                   [] c = "XK" -> "Kosovo"]

\* IpInfo.eu: the list of EU member country codes.
eu == <<"DE">>

\* IpInfo.country_flags: country code -> CountryFlag.
country_flags == [c \in {"US", "DE"} |->
                     IF c = "US" THEN [emoji |-> "flag-US", unicode |-> "U+1F1FA U+1F1F8"]
                                 ELSE [emoji |-> "flag-DE", unicode |-> "U+1F1E9 U+1F1EA"]]

\* IpInfo.country_currencies: country code -> CountryCurrency.
country_currencies == [c \in {"US", "DE"} |->
                          IF c = "US" THEN [code |-> "USD", symbol |-> "$"]
                                      ELSE [code |-> "EUR", symbol |-> "E"]]

\* IpInfo.continents: country code -> Continent.
continents == [c \in {"US", "DE"} |->
                  IF c = "US" THEN [code |-> "NA", name |-> "North America"]
                              ELSE [code |-> "EU", name |-> "Europe"]]

\* ---------------------------------------------------------------- helpers

\* The elements of a slice or Vec.
Range(s) == {s[i] : i \in 1..Len(s)}

\* HashMap::get: Some(value) when the key is present, None otherwise.
MapGet(m, k) == IF k \in DOMAIN m THEN <<m[k]>> ELSE <<>>

\* HashMap::insert: the entry of k is added or replaced.
MapInsert(m, k, v) == [x \in (DOMAIN m) \cup {k} |-> IF x = k THEN v ELSE m[x]]

\* The empty HashMap.
EmptyMap == [x \in {} |-> x]

\* Vec::contains.
Contains(v, x) == x \in Range(v)

\* An IpDetails as serde builds it from one value of the response object:
\* the derived fields are not in the wire format and start as None.
Parsed(ip, country) ==
    [ip |-> ip, country |-> country, country_name |-> <<>>, is_eu |-> <<>>,
     country_flag |-> <<>>, country_currency |-> <<>>, continent |-> <<>>]

\* ------------------------------------------------------------- LRU cache

\* The keys of the cache.
Keys(c) == {c[i].key : i \in 1..Len(c)}

\* The position of a key the cache contains (1 is the most recently used).
IndexOf(c, k) == CHOOSE i \in 1..Len(c) : c[i].key = k

\* The value the cache holds for a key it contains, recency untouched.
ValueOf(c, k) == c[IndexOf(c, k)].val

\* The cache as a mapping from key to value, recency forgotten.
Entries(c) == [k \in Keys(c) |-> ValueOf(c, k)]

\* The cache without the entry of key k.
Without(c, k) == SelectSeq(c, LAMBDA e : e.key # k)

\* A probe that reads the entry and leaves its recency alone (LruCache::peek).
CachePeek(c, k) == c

\* A probe that takes the entry out of the cache (LruCache::pop).
CachePop(c, k) == Without(c, k)

\* LruCache::get on a key the cache contains: the entry becomes the most
\* recently used one; its value is unchanged.
CacheGet(c, k) == <<[key |-> k, val |-> ValueOf(c, k)]>> \o Without(c, k)

\* A put into a cache that never displaces an entry.
CachePutUnbounded(c, cap, k, v) == <<[key |-> k, val |-> v]>> \o Without(c, k)

\* A put that displaces an entry one put too late: the cache may hold
\* cap + 1 entries.
CachePutOffByOne(c, cap, k, v) ==
    IF k \in Keys(c) THEN <<[key |-> k, val |-> v]>> \o Without(c, k)
    ELSE IF Len(c) > cap THEN <<[key |-> k, val |-> v]>> \o SubSeq(c, 1, cap)
    ELSE <<[key |-> k, val |-> v]>> \o c

\* LruCache::put on a cache of capacity cap: the entry of k is replaced and
\* becomes the most recently used one; a new key in a full cache displaces
\* the least recently used entry.
CachePut(c, cap, k, v) ==
    IF k \in Keys(c) THEN <<[key |-> k, val |-> v]>> \o Without(c, k)
    ELSE IF Len(c) >= cap THEN <<[key |-> k, val |-> v]>> \o SubSeq(c, 1, cap - 1)
    ELSE <<[key |-> k, val |-> v]>> \o c

\* ------------------------------------------------------------ the engine

VARIABLES
    capacity,   \* config.cache_size, the capacity IpInfo.cache was built with
    cache,      \* IpInfo.cache, most recently used entry first
    pc,         \* "idle": no call is running; "returned": lookup has just ended
    ips,        \* the argument of the call that has just ended
    net,        \* what the network did with the request of that call
    reqs,       \* the bodies of the requests that call sent to {url}/batch
    outcome,    \* how that call ended: "Ok", an error kind, or "Panic"
    errmsg,     \* the message carried by the error of that call
    result,     \* the HashMap that call returned (Ok only)
    before,     \* history: the cache as it was when that call began
    useOrder,   \* history: every key ever probed as a hit or put, last use first
    streak,     \* history: the pairwise distinct addresses resolved by the
                \* latest consecutive calls that each resolved exactly one
                \* address, which missed the cache; oldest first
    streak0     \* history: streak as it was when the call began

vars == <<capacity, cache, pc, ips, net, reqs, outcome, errmsg, result, before,
          useOrder, streak, streak0>>

\* A partition that sends each missing address once.
RECURSIVE PartitionDedup(_, _, _, _, _)
PartitionDedup(c, a, i, hits, misses) ==
    IF i > Len(a) THEN [cache |-> c, hits |-> hits, misses |-> misses]
    ELSE IF a[i] \in Keys(c)
         THEN PartitionDedup(CacheGet(c, a[i]), a, i + 1,
                             Append(hits, ValueOf(c, a[i])), misses)
         ELSE PartitionDedup(c, a, i + 1, hits,
                             IF a[i] \in Range(misses) THEN misses ELSE Append(misses, a[i]))

\* "Check for cache hits": every address is probed with LruCache::get, in
\* input order; a hit clones the cached record and refreshes the entry, a
\* miss is appended to the miss list.
RECURSIVE Partition(_, _, _, _, _)
Partition(c, a, i, hits, misses) ==
    IF i > Len(a) THEN [cache |-> c, hits |-> hits, misses |-> misses]
    ELSE IF a[i] \in Keys(c)
         THEN Partition(CacheGet(c, a[i]), a, i + 1, Append(hits, ValueOf(c, a[i])), misses)
         ELSE Partition(c, a, i + 1, hits, Append(misses, a[i]))

\* "Lookup cache misses": the requests one call sends, a single POST whose
\* JSON body is the miss list.
Requests(misses) == <<misses>>

\* An error value: its kind and its message.
Err(kind, msg) == [kind |-> kind, msg |-> msg]

\* A request error that loses the message of the service.
RequestErrorNoMessage(e) == Err("IpRequestError", "")

\* err!(IpRequestError, e): the request error carrying the message e.
RequestError(e) == Err("IpRequestError", e)

\* The same steps with the error field of the body examined before the
\* status of the response.
RespondBodyFirst(n) ==
    IF n.kind = "sendfail" THEN Err("SendError", "")
    ELSE IF n.body.kind = "error" THEN RequestError(n.body.msg)
    ELSE IF n.status = 429 THEN Err("RateLimitExceededError", "")
    ELSE IF n.status # 200 THEN Err("StatusError", "")
    ELSE IF n.body.kind = "unreadable" THEN Err("BodyError", "")
    ELSE IF n.body.kind \in {"notjson", "badshape"} THEN Err("JsonError", "")
    ELSE Err("Ok", "")

\* The steps from send() to the parse of the results: the error that ends
\* the call there, or kind "Ok" when the body parses into records.
\*   SendError   send()? failed (timeout, no connection)
\*   RateLimitExceededError   status 429
\*   StatusError error_for_status()? on another non-success status
\*   BodyError   text()? failed
\*   JsonError   serde_json::from_str()? failed
Respond(n) ==
    IF n.kind = "sendfail" THEN Err("SendError", "")
    ELSE IF n.status = 429 THEN Err("RateLimitExceededError", "")
    ELSE IF n.status # 200 THEN Err("StatusError", "")
    ELSE IF n.body.kind = "unreadable" THEN Err("BodyError", "")
    ELSE IF n.body.kind = "notjson" THEN Err("JsonError", "")
    ELSE IF n.body.kind = "error" THEN RequestError(n.body.msg)
    ELSE IF n.body.kind = "badshape" THEN Err("JsonError", "")
    ELSE Err("Ok", "")

\* The unwraps of the enrichment succeed for a record: its country is empty
\* or has an entry in each of the four tables.
EnrichOk(d) ==
    \/ d.country = ""
    \/ /\ MapGet(countries, d.country) # <<>>
       /\ MapGet(country_flags, d.country) # <<>>
       /\ MapGet(country_currencies, d.country) # <<>>
       /\ MapGet(continents, d.country) # <<>>

\* An enrichment that forgets the flag of the country.
EnrichNoFlag(d) ==
    IF d.country = "" THEN d
    ELSE [d EXCEPT !.country_name = <<countries[d.country]>>,
                   !.is_eu = <<Contains(eu, d.country)>>,
                   !.country_currency = <<country_currencies[d.country]>>,
                   !.continent = <<continents[d.country]>>]

\* "Add country_name and EU status to response", for one record on which
\* the unwraps succeed.
Enrich(d) ==
    IF d.country = "" THEN d
    ELSE [d EXCEPT !.country_name = <<countries[d.country]>>,
                   !.is_eu = <<Contains(eu, d.country)>>,
                   !.country_flag = <<country_flags[d.country]>>,
                   !.country_currency = <<country_currencies[d.country]>>,
                   !.continent = <<continents[d.country]>>]

\* The parsed response with every record enriched.
EnrichAll(details) == [k \in DOMAIN details |-> Enrich(details[k])]

\* "Update cache": every entry of details is put, in the order `order`
\* (the iteration order of the HashMap).
RECURSIVE UpdateCache(_, _, _, _, _)
UpdateCache(c, cap, details, order, i) ==
    IF i > Len(order) THEN c
    ELSE UpdateCache(CachePut(c, cap, order[i], details[order[i]]), cap, details, order, i + 1)

\* "Add cache hits to the result": every hit is inserted under its ip field.
RECURSIVE AddHits(_, _, _)
AddHits(details, hits, i) ==
    IF i > Len(hits) THEN details
    ELSE AddHits(MapInsert(details, hits[i].ip, hits[i]), hits, i + 1)

\* The iteration orders of a HashMap with the given key set.
Orders(S) == {o \in [1..Cardinality(S) -> S] : Range(o) = S}

\* ------------------------------------------------------- the environment

\* The slices a caller may pass.
Inputs == UNION {[1..n -> Addr] : n \in 0..MaxIps}

\* The response objects of the service: at most MaxRecs keys, whatever the
\* request was, each with one of the values the service serves under it.
RecordMaps ==
    UNION {{r \in [S -> UNION {Answers[k] : k \in S}] : \A k \in S : r[k] \in Answers[k]} :
              S \in {T \in SUBSET Addr : Cardinality(T) <= MaxRecs}}

\* The bodies of a response.
Bodies ==
    {[kind |-> "unreadable"],                  \* the body cannot be read
     [kind |-> "notjson"],                     \* the body is not JSON
     [kind |-> "badshape"]}                    \* JSON that is no map of records
    \cup {[kind |-> "error", msg |-> m] : m \in ErrMsg}
    \cup {[kind |-> "records", recs |-> r] : r \in RecordMaps}

\* The bodies that come with a non-success status.
ErrorBodies ==
    {b \in Bodies : b.kind \in {"notjson", "error"} \/ (b.kind = "records" /\ DOMAIN b.recs = {})}

\* What the network may do with one request.
Net ==
    {[kind |-> "sendfail"]}                    \* send() fails: timeout, no connection
    \cup {[kind |-> "response", status |-> 200, body |-> b] : b \in Bodies}
    \cup {[kind |-> "response", status |-> s, body |-> b] :
             s \in {429, 403}, b \in ErrorBodies}

\* --------------------------------------------------------------- history

\* The key k becomes the latest used key of the order u.
Touch(u, k) == <<k>> \o SelectSeq(u, LAMBDA x : x # k)

RECURSIVE TouchAll(_, _, _)
TouchAll(u, ks, i) == IF i > Len(ks) THEN u ELSE TouchAll(Touch(u, ks[i]), ks, i + 1)

\* The last n elements of s.
LastN(s, n) == IF Len(s) <= n THEN s ELSE SubSeq(s, Len(s) - n + 1, Len(s))

\* The streak s continued by a call that resolves x: the addresses stay
\* pairwise distinct, and at most n of them are kept.
Continue(s, x, n) ==
    LET from == IF x \in Range(s) THEN (CHOOSE i \in 1..Len(s) : s[i] = x) + 1 ELSE 1
    IN  LastN(Append(SubSeq(s, from, Len(s)), x), n)

\* The call resolves exactly one address, which missed the cache.
ResolvesOne(c, a, n) ==
    /\ Len(a) = 1
    /\ a[1] \notin Keys(c)
    /\ Respond(n).kind = "Ok"
    /\ DOMAIN n.body.recs = {a[1]}
    /\ EnrichOk(Parsed(n.body.recs[a[1]].ip, n.body.recs[a[1]].country))

\* ---------------------------------------------------------------- actions

\* The part of a call's effect that does not depend on how it ends.
Called(a, n, part) ==
    /\ capacity' = capacity
    /\ pc' = "returned"
    /\ ips' = a
    /\ net' = n
    /\ reqs' = Requests(part.misses)
    /\ before' = cache
    /\ streak0' = streak
    /\ streak' = IF ResolvesOne(cache, a, n) THEN Continue(streak, a[1], capacity + 1)
                 ELSE <<>>

\* An abort that comes too late: a panic of the enrichment leaves behind, in
\* the cache, a record of the response that had been enriched before it.
FailsAfterPut(a, part, err) ==
    LET recs == IF err.kind = "Panic" THEN net'.body.recs ELSE EmptyMap
        good == {k \in DOMAIN recs : EnrichOk(Parsed(recs[k].ip, recs[k].country))}
        k == CHOOSE k \in good : TRUE
    IN  /\ cache' = IF good = {} THEN part.cache
                    ELSE CachePut(part.cache, capacity, k,
                                  Enrich(Parsed(recs[k].ip, recs[k].country)))
        /\ outcome' = err.kind
        /\ errmsg' = err.msg
        /\ result' = EmptyMap
        /\ useOrder' = TouchAll(useOrder, SelectSeq(a, LAMBDA x : x \in Keys(cache)), 1)

\* A call that ends with an error or a panic: the cache keeps what the
\* partition did to it.
Fails(a, part, err) ==
    /\ cache' = part.cache
    /\ outcome' = err.kind
    /\ errmsg' = err.msg
    /\ result' = EmptyMap
    /\ useOrder' = TouchAll(useOrder, SelectSeq(a, LAMBDA x : x \in Keys(cache)), 1)

\* IpInfo::lookup(ips = a) against a network that behaves as n.
lookup(a, n) ==
    LET part == Partition(cache, a, 1, <<>>, <<>>)
        err == Respond(n)
    IN  /\ pc = "idle"
        /\ Called(a, n, part)
        /\ IF err.kind # "Ok" THEN Fails(a, part, err)
           ELSE LET parsed == [k \in DOMAIN n.body.recs |->
                                  Parsed(n.body.recs[k].ip, n.body.recs[k].country)]
                IN  IF \E k \in DOMAIN parsed : ~EnrichOk(parsed[k])
                    THEN Fails(a, part, Err("Panic", ""))
                    ELSE \E order \in Orders(DOMAIN parsed) :
                            LET details == EnrichAll(parsed) IN
                            /\ cache' = UpdateCache(part.cache, capacity, details, order, 1)
                            /\ outcome' = "Ok"
                            /\ errmsg' = ""
                            /\ result' = AddHits(details, part.hits, 1)
                            /\ useOrder' =
                                  TouchAll(TouchAll(useOrder,
                                      SelectSeq(a, LAMBDA x : x \in Keys(cache)), 1),
                                      order, 1)

\* The caller takes the value lookup returned; the engine is idle again.
Return ==
    /\ pc = "returned"
    /\ pc' = "idle"
    /\ ips' = <<>>
    /\ net' = [kind |-> "none"]
    /\ reqs' = <<>>
    /\ outcome' = "None"
    /\ errmsg' = ""
    /\ result' = EmptyMap
    /\ before' = <<>>
    /\ streak0' = <<>>
    /\ UNCHANGED <<capacity, cache, useOrder, streak>>

\* IpInfo::new: NonZeroUsize::new(config.cache_size).unwrap() lets only a
\* positive capacity through; the cache is empty and no call has been made.
Init ==
    /\ capacity \in 1..MaxCap
    /\ cache = <<>>
    /\ pc = "idle"
    /\ ips = <<>>
    /\ net = [kind |-> "none"]
    /\ reqs = <<>>
    /\ outcome = "None"
    /\ errmsg = ""
    /\ result = EmptyMap
    /\ before = <<>>
    /\ useOrder = <<>>
    /\ streak = <<>>
    /\ streak0 = <<>>

\* A caller calls lookup when no call is running.
Call == pc = "idle" /\ \E a \in Inputs, n \in Net : lookup(a, n)

Next == Call \/ Return

Spec == Init /\ [][Next]_vars

\* ---------------------------------------------------------------- claims

\* The call that has just ended returned Ok(result).
Succeeded == pc = "returned" /\ outcome = "Ok"

\* The addresses of the call that has just ended that were in the cache
\* when it began, and those that were not.
HitAddrs == {x \in Range(ips) : x \in Keys(before)}
MissAddrs == {x \in Range(ips) : x \notin Keys(before)}

\* C1: a lookup that succeeds returns a mapping whose key set is exactly
\* the set of distinct addresses it was asked for.
C1_KeysAreTheRequested == Succeeded => DOMAIN result = Range(ips)

\* C2: a lookup of addresses that are all cached sends no request and
\* succeeds with the cached record of each address, whatever the remote
\* service does.
C2_AllHitsNoRequest ==
    (pc = "returned" /\ ips # <<>> /\ MissAddrs = {}) =>
        /\ reqs = <<>>
        /\ outcome = "Ok"
        /\ \A x \in HitAddrs : x \in DOMAIN result /\ result[x] = ValueOf(before, x)

\* C3: in a successful lookup every address that was in the cache before
\* the call is returned with the record the cache held for it then.
C3_HitsReturnedAsCached ==
    Succeeded =>
        \A x \in HitAddrs : x \in DOMAIN result /\ result[x] = ValueOf(before, x)

\* The enrichment invariant of one record: the derived fields are those of
\* the reference tables when the country is not empty, and absent when it is.
Enriched(d) ==
    IF d.country = ""
    THEN /\ d.country_name = <<>>
         /\ d.is_eu = <<>>
         /\ d.country_flag = <<>>
         /\ d.country_currency = <<>>
         /\ d.continent = <<>>
    ELSE /\ d.country_name # <<>> /\ d.country_name = MapGet(countries, d.country)
         /\ d.is_eu = <<d.country \in Range(eu)>>
         /\ d.country_flag # <<>> /\ d.country_flag = MapGet(country_flags, d.country)
         /\ d.country_currency # <<>>
         /\ d.country_currency = MapGet(country_currencies, d.country)
         /\ d.continent # <<>> /\ d.continent = MapGet(continents, d.country)

\* C4: every record a successful lookup returns and every record the cache
\* holds satisfies the enrichment invariant.
C4_RecordsEnriched ==
    /\ \A i \in 1..Len(cache) : Enriched(cache[i].val)
    /\ Succeeded => \A k \in DOMAIN result : Enriched(result[k])

\* C4 witness: a successful lookup returned a record without a country and a
\* record of an EU country, and the cache holds an enriched record.
C4_Witness ==
    /\ Succeeded
    /\ \E k \in DOMAIN result : result[k].country = ""
    /\ \E k \in DOMAIN result : result[k].is_eu = <<TRUE>>
    /\ \E i \in 1..Len(cache) : cache[i].val.is_eu = <<FALSE>>

\* The response of the call that has just ended had this status.
Answered(status) == pc = "returned" /\ net.kind = "response" /\ net.status = status

\* C5: a success status with a body whose error field is a message makes
\* lookup fail with an IpRequestError carrying that message, and the cache
\* holds the same entries as before the call.
C5_ErrorBodyIsRequestError ==
    (Answered(200) /\ net.body.kind = "error") =>
        /\ outcome = "IpRequestError"
        /\ errmsg = net.body.msg
        /\ Entries(cache) = Entries(before)

\* C5 witness: an error body answered a call that had hit the least
\* recently used of two cached entries.
C5_Witness ==
    /\ Answered(200)
    /\ net.body.kind = "error"
    /\ Len(before) = 2
    /\ before[2].key \in Range(ips)

\* C6: status 429 makes lookup fail with a RateLimitExceededError, whatever
\* the body is, and the cache holds the same entries as before the call.
C6_Status429IsRateLimit ==
    Answered(429) =>
        /\ outcome = "RateLimitExceededError"
        /\ outcome # "IpRequestError"
        /\ Entries(cache) = Entries(before)

\* C6 witness: status 429 came with a body that carries an error message,
\* for a call with a hit and a miss.
C6_Witness ==
    /\ Answered(429)
    /\ net.body.kind = "error"
    /\ HitAddrs # {}
    /\ MissAddrs # {}

\* The elements of s are pairwise distinct.
Distinct(s) == \A i, j \in 1..Len(s) : s[i] = s[j] => i = j

\* The position of x in an order that contains it.
Pos(u, x) == CHOOSE i \in 1..Len(u) : u[i] = x

\* C7: after capacity + 1 distinct addresses were resolved one per call,
\* each a miss, the first of them is no longer cached and the others are;
\* a lookup of the evicted address then sends it to the network.
C7_OldestOfStreakEvicted ==
    /\ (Len(streak) = capacity + 1 /\ Distinct(streak)) =>
           /\ streak[1] \notin Keys(cache)
           /\ \A i \in 2..Len(streak) : streak[i] \in Keys(cache)
    /\ (pc = "returned" /\ Len(streak0) = capacity + 1 /\ Distinct(streak0)
           /\ streak0[1] \in Range(ips)) =>
           \E i \in 1..Len(reqs) : streak0[1] \in Range(reqs[i])

\* C7 witness: with capacity 2, three addresses were resolved one per call
\* and the first of them has just been looked up again.
C7_Witness ==
    /\ pc = "returned"
    /\ capacity = 2
    /\ Len(streak0) = 3
    /\ Distinct(streak0)
    /\ ips = <<streak0[1]>>

\* C8: when send() or the read of the body fails, lookup fails with that
\* transport error and the cache holds the same entries as before the call.
C8_TransportFailureKeepsEntries ==
    (pc = "returned" /\ (net.kind = "sendfail" \/
                         (net.kind = "response" /\ net.status = 200
                              /\ net.body.kind = "unreadable"))) =>
        /\ outcome \in {"SendError", "BodyError"}
        /\ result = EmptyMap
        /\ Entries(cache) = Entries(before)

\* C8 witness: send() failed in a call with a hit and a miss on a full cache.
C8_Witness ==
    /\ pc = "returned"
    /\ net.kind = "sendfail"
    /\ Len(before) = capacity
    /\ HitAddrs # {}
    /\ MissAddrs # {}

\* C9: a hit counts as a use: every key that is used and no longer cached
\* was last used (put or hit) before every key that is cached, so each
\* eviction took the entry whose last use was oldest.
C9_EvictedIsLeastRecentlyUsed ==
    \A k \in Keys(cache) : \A e \in Range(useOrder) \ Keys(cache) :
        k \in Range(useOrder) /\ Pos(useOrder, k) < Pos(useOrder, e)

\* C9 witness: with capacity 2 and entries A (least recently used) and B
\* cached, a call hit A and resolved a new address: B was evicted, A kept.
C9_Witness ==
    /\ Succeeded
    /\ capacity = 2
    /\ Len(before) = 2
    /\ before[2].key \in Range(ips)
    /\ before[1].key \notin Range(ips)
    /\ before[2].key \in Keys(cache)
    /\ before[1].key \notin Keys(cache)
    /\ MissAddrs \cap Keys(cache) # {}

\* C10: a call with at least one miss sends exactly one request, however it
\* ends, and its body is the sequence of the input addresses that were not
\* cached when the call began, in input order, duplicates kept.
C10_OneRequestOfTheMisses ==
    (pc = "returned" /\ MissAddrs # {}) =>
        /\ Len(reqs) = 1
        /\ reqs[1] = SelectSeq(ips, LAMBDA x : x \notin Keys(before))

\* C10 witness: a call that failed on the status of the response had asked
\* twice for one address that was not cached.
C10_Witness ==
    /\ pc = "returned"
    /\ Len(ips) = 2
    /\ ips[1] = ips[2]
    /\ MissAddrs # {}
    /\ outcome = "StatusError"

\* C11: the entries a call hit are read-only during the call: an address
\* that was cached when the call began and is still cached when it has
\* ended has the same value in the cache as before, whatever the response
\* contained, and a successful call returned that same value for it.
C11_HitEntriesReadOnly ==
    pc = "returned" =>
        \A x \in HitAddrs : x \in Keys(cache) =>
            /\ ValueOf(cache, x) = ValueOf(before, x)
            /\ (outcome = "Ok" /\ x \in DOMAIN result) => result[x] = ValueOf(cache, x)

\* The call that has just ended failed with an error value: a transport
\* failure, status 429, another non-success status, an error body or a
\* body that does not parse.
Failed ==
    /\ pc = "returned"
    /\ outcome \in {"SendError", "BodyError", "RateLimitExceededError", "StatusError",
                    "IpRequestError", "JsonError"}

\* C12: a failed lookup leaves the recency order of the cache unchanged as
\* well as its entries, also when it hit cached addresses: the cache is the
\* same sequence, most recently used first, as before the call, so the next
\* overflowing put evicts the entry it would have evicted without the call.
C12_FailedKeepsRecency == Failed => cache = before

\* The record r of a response has a country code that one of the four
\* reference tables does not know.
Faulty(r) ==
    /\ r.country # ""
    /\ r.country \notin (DOMAIN countries \cap DOMAIN country_flags
                             \cap DOMAIN country_currencies \cap DOMAIN continents)

\* The call that has just ended received a success status and a body that
\* parsed into records.
GotRecords ==
    /\ pc = "returned"
    /\ net.kind = "response"
    /\ net.status = 200
    /\ net.body.kind = "records"

\* C13: enrichment is fail-fast: when a record of the response has a
\* non-empty country code that a reference table does not know, the call
\* aborts without a result and the cache holds the entries it held before,
\* none of that response; a country that is only absent from the EU list
\* does not abort the call and its record gets is_eu = Some(false), in the
\* cache and, where no hit was merged over it, in the result.
C13_EnrichmentFailFast ==
    GotRecords =>
        IF \E k \in DOMAIN net.body.recs : Faulty(net.body.recs[k])
        THEN /\ outcome = "Panic"
             /\ result = EmptyMap
             /\ Entries(cache) = Entries(before)
        ELSE /\ outcome = "Ok"
             /\ \A k \in DOMAIN net.body.recs :
                    (net.body.recs[k].country # "" /\ net.body.recs[k].country \notin Range(eu)) =>
                        /\ k \in Keys(cache) => ValueOf(cache, k).is_eu = <<FALSE>>
                        /\ k \notin {ValueOf(before, x).ip : x \in HitAddrs} =>
                               k \in DOMAIN result /\ result[k].is_eu = <<FALSE>>

\* C13 witness: the response held a record that enriches and a faulty one,
\* for addresses that were not cached, and the call has aborted.
C13_Witness ==
    /\ GotRecords
    /\ outcome = "Panic"
    /\ \E k \in DOMAIN net.body.recs :
           ~Faulty(net.body.recs[k]) /\ net.body.recs[k].country # "" /\ k \notin Keys(before)
    /\ \E k \in DOMAIN net.body.recs : Faulty(net.body.recs[k])
    /\ before # <<>>

\* C14: in every reachable state, after any sequence of successful and
\* failed lookups, the cache holds at most capacity entries, one per key,
\* and the capacity is positive.
C14_CacheWithinCapacity ==
    /\ capacity >= 1
    /\ Len(cache) <= capacity
    /\ Cardinality(Keys(cache)) = Len(cache)

\* C14 witness: a failed call has ended on a full cache from which entries
\* had been evicted by earlier successful calls.
C14_Witness ==
    /\ Failed
    /\ Len(cache) = capacity
    /\ Len(useOrder) > capacity
    /\ HitAddrs # {}

\* C15: every cache entry is stored under the ip field of the record it
\* holds, after any sequence of lookups and whatever keys the responses
\* used, so that the hit for a requested address is merged into the result
\* under that address.
C15_KeyIsRecordIp ==
    /\ \A i \in 1..Len(cache) : cache[i].key = cache[i].val.ip
    /\ Succeeded => \A x \in HitAddrs : ValueOf(before, x).ip = x /\ x \in DOMAIN result

\* C16: the result of a successful lookup is complete whatever the
\* capacity is: every record collected as a hit is in the result, also when
\* the cache update of the same call evicted its entry, and when the
\* response answers a batch with more distinct misses than the capacity,
\* every miss is returned with its record and the cache holds exactly
\* capacity entries afterwards.
C16_ResultCompleteWhateverCapacity ==
    Succeeded =>
        /\ \A x \in HitAddrs : \E k \in DOMAIN result : result[k] = ValueOf(before, x)
        /\ (DOMAIN net.body.recs = MissAddrs /\ Cardinality(MissAddrs) > capacity) =>
               /\ \A x \in MissAddrs :
                      /\ x \in DOMAIN result
                      /\ result[x] = Enrich(Parsed(net.body.recs[x].ip, net.body.recs[x].country))
               /\ Len(cache) = capacity

====
